---- MODULE Spec2Model ----
(***************************************************************************)
(* Model of src/src/main.rs: shortest_path, a breadth-first word-ladder    *)
(* search over a length-filtered dictionary.                               *)
(*                                                                         *)
(* A word (&str) is a sequence of characters.  Characters 1..NumLetters    *)
(* are ASCII letters (one byte each in UTF-8); the character Wide stands   *)
(* for a non-ASCII character (two bytes in UTF-8).  str::len() counts      *)
(* bytes, str::chars() yields characters.  The corpus (english3.txt) holds *)
(* ASCII words only; the two input words come from the command line and    *)
(* may hold any character.  The corpus is any set of at most MaxCorpus     *)
(* two-letter words, with or without the one-letter word <<1>>.            *)
(*                                                                         *)
(* Search nodes (Rc<Node>) live in the arena `nodes`; an Rc pointer is the *)
(* index of the node in the arena and parent = 0 is None.                  *)
(***************************************************************************)
EXTENDS Naturals, Sequences, FiniteSets

\* ---- bounds of the model ----
\* the ASCII letters are 1..NumLetters
NumLetters == 3
\* the corpus holds at most MaxCorpus words
MaxCorpus == 4

Letters == 1..NumLetters
Wide == NumLetters + 1

\* every word the corpus may hold: the two-letter words and a one-letter word
AsciiWords == (Letters \X Letters) \cup {<<1>>}

RECURSIVE SubsetsUpTo(_, _)
SubsetsUpTo(S, k) ==
    IF k = 0 THEN {{}}
    ELSE LET smaller == SubsetsUpTo(S, k - 1)
         IN  smaller \cup {T \cup {x} : T \in smaller, x \in S}

Corpora == SubsetsUpTo(AsciiWords, MaxCorpus)

\* words a caller may pass whether or not the corpus holds them: a non-ASCII
\* word (one character, two bytes) and an ASCII word
Probes == {<<Wide>>, <<1, 1>>}

\* ---- str primitives ----
Width(c) == IF c = Wide THEN 2 ELSE 1

RECURSIVE ByteLen(_)
\* str::len(): the length in bytes
ByteLen(w) == IF w = <<>> THEN 0 ELSE Width(Head(w)) + ByteLen(Tail(w))

RECURSIVE StrLess(_, _)
\* Ord for str: lexicographic, a proper prefix is smaller
StrLess(a, b) ==
    IF b = <<>> THEN FALSE
    ELSE IF a = <<>> THEN TRUE
    ELSE IF Head(a) # Head(b) THEN Head(a) < Head(b)
    ELSE StrLess(Tail(a), Tail(b))

Min2(a, b) == IF a < b THEN a ELSE b

RECURSIVE HammingFold(_, _, _, _)
HammingFold(w1, w2, i, distance) ==
    IF i > Min2(Len(w1), Len(w2)) THEN distance
    ELSE HammingFold(w1, w2, i + 1,
                     IF w1[i] # w2[i] THEN distance + 1 ELSE distance)

\* fold over chars().zip(chars()): zip stops at the shorter word
hamming_distance(word1, word2) == HammingFold(word1, word2, 1, 0)

\* DICTIONARY filtered by line.len() == word_len, collected into a BTreeSet
load_dictionary(all, word_len) == {line \in all : ByteLen(line) = word_len}

RECURSIVE IterDescending(_)
\* an iteration in descending order
IterDescending(S) ==
    IF S = {} THEN <<>>
    ELSE LET greatest == CHOOSE x \in S : \A y \in S \ {x} : StrLess(y, x)
         IN  <<greatest>> \o IterDescending(S \ {greatest})

RECURSIVE BTreeIter(_)
\* BTreeSet::iter(): the elements in ascending order
BTreeIter(S) ==
    IF S = {} THEN <<>>
    ELSE LET least == CHOOSE x \in S : \A y \in S \ {x} : StrLess(x, y)
         IN  <<least>> \o BTreeIter(S \ {least})

\* ---- nodes ----
NodeNew(data) == [data |-> data, parent |-> 0]
NodeWithParent(data, parent) == [data |-> data, parent |-> parent]

RECURSIVE WalkUpPushBack(_, _, _)
\* the ancestors pushed at the back of path instead of the front
WalkUpPushBack(arena, parent, path) ==
    IF parent = 0 THEN path
    ELSE WalkUpPushBack(arena, arena[parent].parent, path \o <<arena[parent].data>>)

RECURSIVE WalkUp(_, _, _)
\* lines 143-147: push_front of every ancestor's data onto path
WalkUp(arena, parent, path) ==
    IF parent = 0 THEN path
    ELSE WalkUp(arena, arena[parent].parent, <<arena[parent].data>> \o path)

\* lines 140-149: the path from the root to the child
AssemblePath(arena, child) == WalkUp(arena, arena[child].parent, <<arena[child].data>>)

\* ---- errors ----
NoResult == [tag |-> "None"]
Ok(path) == [tag |-> "Ok", path |-> path]
NoPathExists(s, e) == [tag |-> "NoPathExists", start_word |-> s, end_word |-> e]
NotInDictionary(w) == [tag |-> "NotInDictionary", word |-> w]
WordsUnequalLen(s, e) == [tag |-> "WordsUnequalLen", start_word |-> s, end_word |-> e]

VARIABLES corpus, start_word, end_word, pc, loaded, dictionary, nodes, search,
          pushed, result

vars == <<corpus, start_word, end_word, pc, loaded, dictionary, nodes, search,
          pushed, result>>

Init ==
    /\ corpus \in Corpora
    /\ start_word = <<>>
    /\ end_word = <<>>
    /\ pc = "main"
    /\ loaded = FALSE
    /\ dictionary = {}
    /\ nodes = <<>>
    /\ search = <<>>
    /\ pushed = <<>>
    /\ result = NoResult

\* lines 55-58: main passes the two command-line words to shortest_path
Main ==
    /\ pc = "main"
    /\ \E s \in corpus \cup Probes, e \in corpus \cup Probes :
          /\ start_word' = s
          /\ end_word' = e
    /\ pc' = "check_len"
    /\ UNCHANGED <<corpus, loaded, dictionary, nodes, search, pushed, result>>

\* lines 89-95
CheckLen ==
    /\ pc = "check_len"
    /\ IF ByteLen(start_word) = ByteLen(end_word)
       THEN pc' = "load" /\ UNCHANGED result
       ELSE pc' = "done" /\ result' = WordsUnequalLen(start_word, end_word)
    /\ UNCHANGED <<corpus, start_word, end_word, loaded, dictionary, nodes, search, pushed>>

\* lines 97-107: the dictionary is loaded, then start and end are looked up in it
CheckMembership ==
    /\ pc = "load"
    /\ LET dict == load_dictionary(corpus, ByteLen(start_word))
       IN  /\ dictionary' = dict
           /\ loaded' = TRUE
           /\ IF start_word \notin dict
              THEN pc' = "done" /\ result' = NotInDictionary(start_word)
              ELSE IF end_word \notin dict
              THEN pc' = "done" /\ result' = NotInDictionary(end_word)
              ELSE pc' = "base_case" /\ UNCHANGED result
    /\ UNCHANGED <<corpus, start_word, end_word, nodes, search, pushed>>

\* the start == end test left out
IsBaseCaseNever(s, e) == FALSE

\* line 114
IsBaseCase(s, e) == s = e

\* lines 114-116
BaseCase ==
    /\ pc = "base_case"
    /\ IsBaseCase(start_word, end_word)
    /\ result' = Ok(<<start_word>>)
    /\ pc' = "done"
    /\ UNCHANGED <<corpus, start_word, end_word, loaded, dictionary, nodes, search, pushed>>

\* the child pushed at the front of the frontier
push_front(queue, x) == <<x>> \o queue

\* VecDeque::push_back
push_back(queue, x) == Append(queue, x)

\* the head read but left in the queue
peek_front(queue) == queue

\* VecDeque::pop_front: what is left of the queue
pop_front(queue) == Tail(queue)

\* the word left in the set
remove_nothing(set, w) == set

\* BTreeSet::remove
remove(set, w) == set \ {w}

\* lines 122-123
SeedSearch ==
    /\ pc = "base_case"
    /\ ~IsBaseCase(start_word, end_word)
    /\ nodes' = <<NodeNew(start_word)>>
    /\ search' = push_back(<<>>, 1)
    /\ pushed' = <<1>>
    /\ pc' = "loop"
    /\ UNCHANGED <<corpus, start_word, end_word, loaded, dictionary, result>>

\* any differing word taken as a neighbour
IsAnyAway(current_data, word) == hamming_distance(current_data, word) >= 1

\* line 131
IsOneAway(current_data, word) == hamming_distance(current_data, word) = 1

\* lines 129-131: the neighbours of current_data, in the set's iteration order
one_away(dict, current_data) ==
    SelectSeq(BTreeIter(dict), LAMBDA word : IsOneAway(current_data, word))

RECURSIVE ForEachWord(_, _, _, _, _, _, _)
\* lines 132-153: the for loop over one_away, from its i-th word on
ForEachWord(words, i, current, target, arena, queue, hist) ==
    IF i > Len(words)
    THEN [found |-> FALSE, path |-> <<>>, nodes |-> arena, search |-> queue, pushed |-> hist]
    ELSE LET withChild == Append(arena, NodeWithParent(words[i], current))
             child == Len(withChild)
         IN  IF words[i] = target
             THEN [found |-> TRUE, path |-> AssemblePath(withChild, child),
                   nodes |-> withChild, search |-> queue, pushed |-> hist]
             ELSE ForEachWord(words, i + 1, current, target, withChild,
                              push_back(queue, child), Append(hist, child))

\* lines 125-154: one iteration of the while loop
Expand ==
    /\ pc = "loop"
    /\ search # <<>>
    /\ LET current == Head(search)
           dict == remove(dictionary, nodes[current].data)
       IN  \E r \in {ForEachWord(one_away(dict, nodes[current].data), 1, current, end_word,
                                 nodes, pop_front(search), pushed)} :
               /\ dictionary' = dict
               /\ nodes' = r.nodes
               /\ search' = r.search
               /\ pushed' = r.pushed
               /\ IF r.found
                  THEN pc' = "done" /\ result' = Ok(r.path)
                  ELSE pc' = "loop" /\ UNCHANGED result
    /\ UNCHANGED <<corpus, start_word, end_word, loaded>>

\* lines 125, 156-159: the frontier is empty
Exhausted ==
    /\ pc = "loop"
    /\ search = <<>>
    /\ result' = NoPathExists(start_word, end_word)
    /\ pc' = "done"
    /\ UNCHANGED <<corpus, start_word, end_word, loaded, dictionary, nodes, search, pushed>>

Next ==
    \/ Main
    \/ CheckLen
    \/ CheckMembership
    \/ BaseCase
    \/ SeedSearch
    \/ Expand
    \/ Exhausted

Spec == Init /\ [][Next]_vars

\* the call runs to its return: a single thread that is never suspended
FairSpec == Spec /\ WF_vars(Next)

(***************************************************************************)
(* Reference definitions the claims are stated with.  They are written     *)
(* from the meaning of a word ladder, not from the search.                 *)
(***************************************************************************)

\* the dictionary for the length (in characters) of the start word, before any search
\* (start_word is set once main has passed it)
OriginalDictionary == {w \in corpus : Len(w) = Len(start_word)}

\* a and b have the same length and differ at exactly one position
OneSubstitution(a, b) ==
    /\ Len(a) = Len(b)
    /\ Cardinality({i \in 1..Len(a) : a[i] # b[i]}) = 1

RECURSIVE Within(_, _, _)
\* the words of D that a ladder of at most k steps reaches from s
Within(D, s, k) ==
    IF k = 0 THEN {s}
    ELSE LET near == Within(D, s, k - 1)
         IN  near \cup {w \in D : \E u \in near : OneSubstitution(u, w)}

Connected(D, s, e) == e \in Within(D, s, Cardinality(D))

\* the number of steps of a shortest ladder from s to e (for connected s, e)
GraphDistance(D, s, e) ==
    CHOOSE k \in 0..Cardinality(D) :
        /\ e \in Within(D, s, k)
        /\ \A j \in 0..k : j < k => e \notin Within(D, s, j)

RECURSIVE LaddersOfSteps(_, _, _)
\* every ladder of exactly k steps inside D that starts at s
LaddersOfSteps(D, s, k) ==
    IF k = 0 THEN {<<s>>}
    ELSE UNION {{Append(p, w) : w \in {x \in D : OneSubstitution(p[Len(p)], x)}} :
                p \in LaddersOfSteps(D, s, k - 1)}

\* the ladders from s to e with the fewest steps
ShortestLadders(D, s, e) ==
    {p \in LaddersOfSteps(D, s, GraphDistance(D, s, e)) : p[Len(p)] = e}

\* word a comes before word b of the same length in dictionary order
WordBefore(a, b) ==
    \E i \in 1..Len(a) : a[i] < b[i] /\ \A j \in 1..(i - 1) : a[j] = b[j]

\* ladder p comes before ladder q of the same length, compared word by word
LadderBefore(p, q) ==
    \E i \in 1..Len(p) : WordBefore(p[i], q[i]) /\ \A j \in 1..(i - 1) : p[j] = q[j]

\* the words of the nodes that have left the frontier
DequeuedWords(arena, hist, queue) ==
    {arena[hist[i]].data : i \in {j \in 1..Len(hist) : \A k \in 1..Len(queue) : queue[k] # hist[j]}}

RECURSIVE Chain(_, _)
\* the words of a node and of its ancestors, root first
Chain(arena, n) ==
    IF arena[n].parent = 0 THEN <<arena[n].data>>
    ELSE Append(Chain(arena, arena[n].parent), arena[n].data)

Returned == pc = "done"
ValidPair == start_word # end_word /\ start_word \in OriginalDictionary /\ end_word \in OriginalDictionary

\* C1: a returned path of N words has N-1 = the graph distance from start to end
\* in the original dictionary: no ladder between them has fewer steps.
C1_Minimality ==
    (Returned /\ ValidPair /\ result.tag = "Ok") =>
        /\ Connected(OriginalDictionary, start_word, end_word)
        /\ Len(result.path) - 1 = GraphDistance(OriginalDictionary, start_word, end_word)

\* a path of three words was returned although a ladder of four distinct words exists too
C1_Witness ==
    /\ Returned /\ ValidPair /\ result.tag = "Ok"
    /\ Len(result.path) = 3
    /\ \E p \in LaddersOfSteps(OriginalDictionary, start_word, 3) :
          p[4] = end_word /\ Cardinality({p[i] : i \in 1..4}) = 4

\* C2: a returned path begins with start, ends with end, its consecutive words
\* are one substitution apart (hamming_distance 1), and all its words are in the
\* original length-filtered dictionary.
C2_PathValid ==
    (Returned /\ result.tag = "Ok") =>
        /\ result.path[1] = start_word
        /\ result.path[Len(result.path)] = end_word
        /\ \A i \in 1..(Len(result.path) - 1) :
              /\ hamming_distance(result.path[i], result.path[i + 1]) = 1
              /\ OneSubstitution(result.path[i], result.path[i + 1])
        /\ \A i \in 1..Len(result.path) : result.path[i] \in OriginalDictionary

\* a path of at least three words whose inner words the search has removed
C2_Witness ==
    /\ Returned /\ result.tag = "Ok"
    /\ Len(result.path) >= 3
    /\ result.path[2] \notin dictionary

\* C3: every pair whose lengths in characters differ gets WordsUnequalLen with
\* both words, before the dictionary is loaded and before any node is created.
C3_UnequalLen ==
    (Returned /\ Len(start_word) # Len(end_word)) =>
        /\ result = WordsUnequalLen(start_word, end_word)
        /\ ~loaded
        /\ nodes = <<>>

\* C4: for inputs of equal length, an absent start gives NotInDictionary(start),
\* a present start with an absent end gives NotInDictionary(end), and no search
\* is attempted.
C4_MembershipOrder ==
    (Returned /\ Len(start_word) = Len(end_word)) =>
        /\ start_word \notin OriginalDictionary =>
              result = NotInDictionary(start_word) /\ nodes = <<>>
        /\ (start_word \in OriginalDictionary /\ end_word \notin OriginalDictionary) =>
              result = NotInDictionary(end_word) /\ nodes = <<>>

\* C5: for a dictionary word a, shortest_path(a, a) is [a]; no frontier is
\* created and no word is removed from the dictionary.
C5_SameWord ==
    (Returned /\ start_word = end_word /\ start_word \in OriginalDictionary) =>
        /\ result = Ok(<<start_word>>)
        /\ nodes = <<>> /\ search = <<>> /\ pushed = <<>>
        /\ dictionary = OriginalDictionary

\* start = end is a dictionary word that has a neighbour in the dictionary
C5_Witness ==
    /\ Returned /\ start_word = end_word /\ start_word \in OriginalDictionary
    /\ result.tag = "Ok"
    /\ \E w \in OriginalDictionary : OneSubstitution(start_word, w)

\* C6: for start # end both in the dictionary, the result is NoPathExists(start,
\* end) exactly when no ladder connects them, and Ok exactly when one does.
C6_NoPathIff ==
    (Returned /\ ValidPair) =>
        /\ result = NoPathExists(start_word, end_word)
              <=> ~Connected(OriginalDictionary, start_word, end_word)
        /\ result.tag = "Ok" <=> Connected(OriginalDictionary, start_word, end_word)

\* NoPathExists after a search that expanded several nodes
C6_Witness ==
    /\ Returned /\ ValidPair
    /\ result.tag = "NoPathExists"
    /\ Len(nodes) >= 3

\* C7: every call returns: the search loop stops with a path or with NoPathExists.
C7_Termination == <>(pc = "done")

\* a search that enqueued a word more than once and still returned
C7_Witness ==
    /\ Returned
    /\ \E i, j \in 1..Len(pushed) : i < j /\ nodes[pushed[i]].data = nodes[pushed[j]].data

\* C8: no two nodes ever appended to the frontier carry the same word.
C8_NoWordEnqueuedTwice ==
    \A i, j \in 1..Len(pushed) : i # j => nodes[pushed[i]].data # nodes[pushed[j]].data

\* the words along every node's parent chain are pairwise distinct and the chain
\* starts at the root node, which holds start
ChainsDistinct ==
    \A n \in 1..Len(nodes) :
        LET c == Chain(nodes, n)
        IN  /\ c[1] = start_word
            /\ nodes[1].parent = 0
            /\ n > 1 => nodes[n].parent \in 1..(n - 1)
            /\ \A i, j \in 1..Len(c) : i # j => c[i] # c[j]

\* no node created by this step carries a word that has been dequeued
NewChildrenFresh ==
    \A k \in (Len(nodes) + 1)..Len(nodes') :
        nodes'[k].data \notin DequeuedWords(nodes', pushed', search')

\* C9: a newly created child never carries a word that has been dequeued; the
\* words along every node's parent chain are pairwise distinct and the chain
\* ends at the root node, which holds start.
C9_ChainsAcyclic == []ChainsDistinct /\ [][NewChildrenFresh]_vars

\* a child was created while an earlier node with the same word was still waiting
C9_Witness ==
    \E n \in 1..Len(nodes) :
        /\ Len(Chain(nodes, n)) >= 3
        /\ \E m \in 1..(n - 1) : nodes[m].data = nodes[n].data

\* C10: the returned path is the first, in word-by-word dictionary order, of all
\* shortest ladders from start to end; the dictionary and the pair determine it.
C10_LeastShortestLadder ==
    (Returned /\ ValidPair /\ result.tag = "Ok") =>
        /\ result.path \in ShortestLadders(OriginalDictionary, start_word, end_word)
        /\ \A q \in ShortestLadders(OriginalDictionary, start_word, end_word) :
              q # result.path => LadderBefore(result.path, q)

\* a path was returned although another ladder of the same length exists
C10_Witness ==
    /\ Returned /\ ValidPair /\ result.tag = "Ok"
    /\ Cardinality(ShortestLadders(OriginalDictionary, start_word, end_word)) >= 2
====
